---- MODULE Spec2Model ----
(***************************************************************************)
(* A model of MietteReporter (src/src/reporter.rs): render_diagnostic,     *)
(* render_header, render_causes and render_snippet, as one sequential      *)
(* state machine.  Every write!/writeln! on the formatter is one step,     *)
(* which the sink either accepts or rejects (fmt::Error).  The output is   *)
(* a sequence of tokens; every '\n' the code writes is a token of its own, *)
(* so that lines and empty lines of the rendered text can be counted.      *)
(***************************************************************************)
EXTENDS Integers, Sequences, FiniteSets, TLC

\* ------------------------------------------------------------------ bounds
\* Longest context text (in characters) of the snippet specification.
MaxLen == 3
\* Most highlights of one snippet in the snippet specification.
MaxHl == 2
\* Longest cause chain.
MaxCauses == 2
\* Most snippets of one diagnostic.
MaxSnippets == 3
\* Most help entries.
MaxHelp == 1

\* ------------------------------------------------------- characters, text
\* "a" is any one-byte character that is no line terminator, "U2" any
\* two-byte character (char::len_utf8 = 2), "CR" and "LF" are '\r' and '\n'.
Chars == {"a", "U2", "CR", "LF"}

len_utf8(c) == IF c = "U2" THEN 2 ELSE 1

RECURSIVE ByteLen(_)
ByteLen(s) == IF s = <<>> THEN 0 ELSE len_utf8(Head(s)) + ByteLen(Tail(s))

RECURSIVE SeqsUpTo(_, _)
SeqsUpTo(S, n) ==
    IF n = 0 THEN {<<>>}
    ELSE LET shorter == SeqsUpTo(S, n - 1)
         IN  shorter \cup {Append(s, x) : s \in {t \in shorter : Len(t) = n - 1}, x \in S}

Texts == SeqsUpTo(Chars, MaxLen)

\* -------------------------------------------------------------- the output
\* One token of the sink: k its kind, sec the section of render_diagnostic
\* that wrote it (1 header, 2 causes, 3 snippets, 4 help), n and m numbers,
\* s a text.  m of a "name" or "msg" token is 1 when its text ends with ':',
\* m of a "src" or "annpre" token is the width of its text before the line's
\* content (the formatted number or glyph and " | ").
Tok(k, sec, n, m, s) == [k |-> k, sec |-> sec, n |-> n, m |-> m, s |-> s]
NL(sec) == Tok("nl", sec, 0, 0, <<>>)
NoIndex == -1

VARIABLES
    diagnostic,   \* the diagnostic being rendered (read-only input)
    out,          \* what the sink has accepted so far
    attempts,     \* number of writes handed to the sink
    result,       \* "none" while rendering, then "Ok", "Err" or "panic"
    errKind,      \* "none", or what ended the render: "sink", "read", "utf8", "todo"
    pc,           \* the statement about to run (kept where a failure happened)
    ci,           \* render_causes: n of enumerate()
    si,           \* render_diagnostic: index of the snippet being rendered
    hp,           \* render_diagnostic: index of the help entry being written
    pos,          \* render_snippet: characters consumed from iter
    line, column, offset, line_offset, line_str,
    hi,           \* render_snippet: index of the highlight being examined
    first         \* what an earlier render of the same diagnostic ended with

vars == <<diagnostic, out, attempts, result, errKind, pc, ci, si, hp, pos,
          line, column, offset, line_offset, line_str, hi, first>>

scan == <<pos, line, column, offset, line_offset, line_str, hi>>

\* ------------------------------------------------------------------ inputs
\* Span: byte offsets [start, end) in the source, start <= end.
Span(a, b) == [start |-> a, end |-> b]
SpanLen(sp) == sp.end - sp.start

\* What the Source Reader hands back for a snippet's context is part of the
\* snippet record: read ("ok" or "err": read_span's result), utf8 (whether
\* data() decodes), data (the decoded characters: the full lines covering the
\* context), cline and ccolumn (line() and column(): the 1-based position of
\* context.start).  start is context.start.offset().  The returned data begins
\* at the start of context.start's line, ccolumn - 1 bytes before it.
Snippet(message, read, utf8, data, cline, ccolumn, hlSome, highlights) ==
    [message |-> message, read |-> read, utf8 |-> utf8, data |-> data,
     cline |-> cline, ccolumn |-> ccolumn, start |-> ccolumn - 1,
     hlSome |-> hlSome, highlights |-> highlights]

\* Absolute offset of the first byte of the returned data.
DataStart(sn) == sn.start - (sn.ccolumn - 1)

\* Lines the reader may report for the context start: a line number of one
\* digit, of two and of three.
StartLines == {1, 41, 120}

\* Columns the reader may report for a context over `data`: 1, or 2 when the
\* first character of the first line is a one-byte character before the start.
StartColumns(data) ==
    {1} \cup (IF data # <<>> /\ data[1] = "a" THEN {2} ELSE {})

\* Every span lying in the returned data (the data begins at offset 0).
SpansOf(data) ==
    {sp \in [start : 0..ByteLen(data), end : 0..ByteLen(data)] : sp.start <= sp.end}

\* Texts of one-byte characters and LF only, one character shorter than the
\* longest text.
PlainTexts == SeqsUpTo({"a", "LF"}, MaxLen - 1)

\* The snippets of the snippet specification: every text with no highlight
\* and with every single highlight (reader at line 1, column 1); every plain
\* text with every highlight sequence; every text with every highlight within its
\* first byte at every reported line; every text with every reported
\* position; a failing read; undecodable bytes.
SnippetInputs ==
    UNION {{Snippet(FALSE, "ok", TRUE, d, 1, 1, TRUE, h) :
                h \in {<<>>} \cup {<<sp>> : sp \in SpansOf(d)}} : d \in Texts} \cup
    UNION {{Snippet(FALSE, "ok", TRUE, d, 1, 1, TRUE, h) :
                h \in SeqsUpTo(SpansOf(d), MaxHl)} : d \in PlainTexts} \cup
    UNION {{Snippet(FALSE, "ok", TRUE, d, l, 1, TRUE, <<sp>>) :
                sp \in {t \in SpansOf(d) : t.end <= 1}, l \in StartLines} : d \in Texts} \cup
    UNION {{Snippet(m, "ok", TRUE, d, l, c, FALSE, <<>>) :
                m \in BOOLEAN, l \in StartLines, c \in StartColumns(d)} : d \in Texts} \cup
    {Snippet(m, "err", TRUE, <<>>, 1, 1, FALSE, <<>>) : m \in BOOLEAN} \cup
    {Snippet(m, "ok", FALSE, <<>>, 1, 1, FALSE, <<>>) : m \in BOOLEAN}

Diagnostic(sev, causes, snipSome, snippets, helpSome, help) ==
    [sev |-> sev, causes |-> causes, snipSome |-> snipSome, snippets |-> snippets,
     helpSome |-> helpSome, help |-> help]

\* ------------------------------------------------------ control and the sink
Sn == diagnostic.snippets[si]

\* An error that is dropped instead of returned: the render goes on from the
\* same statement.
AbortIgnored(kind) ==
    /\ result' = "none"
    /\ errKind' = kind
    /\ UNCHANGED <<pc, ci, si, hp, scan>>

\* The `?` operator and the panics: the render call ends here and nothing
\* else changes.  pc stays at the failing statement.
Abort(kind) ==
    /\ result' = "Err"
    /\ errKind' = kind
    /\ UNCHANGED <<pc, ci, si, hp, scan>>

Panic(kind) ==
    /\ result' = "panic"
    /\ errKind' = kind
    /\ UNCHANGED <<pc, ci, si, hp, scan>>

\* Control moves to statement p; "done" is the final Ok(()) of
\* render_diagnostic.
Goto(p) ==
    /\ pc' = p
    /\ result' = IF p = "done" THEN "Ok" ELSE "none"
    /\ errKind' = "none"

\* `if let Some(help) = diagnostic.help()` and what follows the snippets.
AfterSnippetsPc == IF diagnostic.helpSome THEN "help_nl" ELSE "done"

\* `if let Some(snippets) = diagnostic.snippets()` and what follows the causes.
AfterCausesPc == IF diagnostic.snipSome THEN "snippets_nl" ELSE AfterSnippetsPc

\* The `for snippet in snippets` loop: the pc after snippet number k returned Ok.
NextSnippetPc(k) ==
    IF k < Len(diagnostic.snippets) THEN "snip_name" ELSE AfterSnippetsPc

\* The `for msg in help` loop: the pc after k help entries were written.
NextHelpPc(k) == IF k < diagnostic.help THEN "help" ELSE "done"

\* One write!/writeln! of the tokens toks: the sink takes them all, or
\* rejects the write (fmt::Error, propagated by `?`).
Accept(toks) ==
    /\ out' = out \o toks
    /\ attempts' = attempts + 1

Reject ==
    /\ out' = out
    /\ attempts' = attempts + 1
    /\ Abort("sink")

\* --------------------------------------------------------- render_diagnostic
\* lines 60-64: the severity's text.
SevText(sev) ==
    CASE sev = "Error" -> "Error"
      [] sev = "Warning" -> "Warning"
      [] sev = "Advice" -> "Advice"

\* line 75: `if let Some(cause) = diagnostic.source()`, and what follows the
\* header.  diagnostic.causes is the length of the cause chain; the message
\* of its k-th link is k.
AfterHeaderPc == IF diagnostic.causes > 0 THEN "caused_by" ELSE AfterCausesPc

\* line 77: let multiple = cause.source().is_some()
Multiple == diagnostic.causes > 1

\* The index printed on every cause line, also of a chain of one link.
CauseIndexAlways(n) == n

\* lines 81-85: the index the n-th cause line carries (indented(f).ind(n)
\* prints it right-aligned before the message; indented(f) prints none).
CauseIndex(n) == IF Multiple THEN n ELSE NoIndex

\* line 79: Chain::new(cause).enumerate() yields (n, the n+1-th link).
ChainItem(n) == n + 1

\* lines 79 and 86: the pc after n cause lines were written.
NextCausePc(n) == IF n < diagnostic.causes THEN "cause_nl" ELSE AfterCausesPc

\* line 65 (render_header): write!(f, "{}[{}]: {}", sev, code, diagnostic)
Header ==
    /\ pc = "header" /\ result = "none"
    /\ \E ok \in BOOLEAN :
        IF ok
        THEN /\ Accept(<<Tok("header", 1, 0, 0, <<SevText(diagnostic.sev)>>)>>)
             /\ Goto(AfterHeaderPc)
             /\ UNCHANGED <<ci, si, hp, scan>>
        ELSE Reject
    /\ UNCHANGED <<diagnostic, first>>

\* line 76 (render_causes): write!(f, "\n\nCaused by:")
CausedBy ==
    /\ pc = "caused_by" /\ result = "none"
    /\ \E ok \in BOOLEAN :
        IF ok
        THEN /\ Accept(<<NL(2), NL(2), Tok("causedby", 2, 0, 0, <<>>)>>)
             /\ ci' = 0
             /\ Goto(NextCausePc(0))
             /\ UNCHANGED <<si, hp, scan>>
        ELSE Reject
    /\ UNCHANGED <<diagnostic, first>>

\* line 80: writeln!(f)
CauseNl ==
    /\ pc = "cause_nl" /\ result = "none"
    /\ \E ok \in BOOLEAN :
        IF ok
        THEN /\ Accept(<<NL(2)>>)
             /\ Goto("cause_msg")
             /\ UNCHANGED <<ci, si, hp, scan>>
        ELSE Reject
    /\ UNCHANGED <<diagnostic, first>>

\* lines 81-85: write!(indented(f).ind(n), "{}", error) or
\* write!(indented(f), "{}", error); then the next turn of the for loop.
CauseMsg ==
    /\ pc = "cause_msg" /\ result = "none"
    /\ \E ok \in BOOLEAN :
        IF ok
        THEN /\ Accept(<<Tok("cause", 2, CauseIndex(ci), ChainItem(ci), <<>>)>>)
             /\ ci' = ci + 1
             /\ Goto(NextCausePc(ci + 1))
             /\ UNCHANGED <<si, hp, scan>>
        ELSE Reject
    /\ UNCHANGED <<diagnostic, first>>

\* Two line breaks before the snippets instead of one.
SnippetsNlTwice ==
    /\ pc = "snippets_nl" /\ result = "none"
    /\ Accept(<<NL(3), NL(3)>>)
    /\ si' = 1
    /\ Goto(NextSnippetPc(0))
    /\ UNCHANGED <<diagnostic, first, ci, hp, scan>>

\* line 39: writeln!(f) before the snippets, and the start of the for loop.
SnippetsNl ==
    /\ pc = "snippets_nl" /\ result = "none"
    /\ \E ok \in BOOLEAN :
        IF ok
        THEN /\ Accept(<<NL(3)>>)
             /\ si' = 1
             /\ Goto(NextSnippetPc(0))
             /\ UNCHANGED <<ci, hp, scan>>
        ELSE Reject
    /\ UNCHANGED <<diagnostic, first>>

\* line 46: writeln!(f) before the help, and the start of the for loop.
HelpNl ==
    /\ pc = "help_nl" /\ result = "none"
    /\ \E ok \in BOOLEAN :
        IF ok
        THEN /\ Accept(<<NL(4)>>)
             /\ hp' = 1
             /\ Goto(NextHelpPc(0))
             /\ UNCHANGED <<ci, si, scan>>
        ELSE Reject
    /\ UNCHANGED <<diagnostic, first>>

\* line 48: writeln!(f, "﹦{}", msg); the message of the k-th entry is k.
Help ==
    /\ pc = "help" /\ result = "none"
    /\ \E ok \in BOOLEAN :
        IF ok
        THEN /\ Accept(<<Tok("help", 4, hp, 0, <<>>), NL(4)>>)
             /\ hp' = hp + 1
             /\ Goto(NextHelpPc(hp))
             /\ UNCHANGED <<ci, si, scan>>
        ELSE Reject
    /\ UNCHANGED <<diagnostic, first>>

\* ------------------------------------------------------------ render_snippet
\* line 98: write!(f, "\n[{}]", snippet.source_name)
SnipName ==
    /\ pc = "snip_name" /\ result = "none"
    /\ \E ok \in BOOLEAN :
        IF ok
        THEN /\ Accept(<<NL(3), Tok("name", 3, si, 0, <<>>)>>)
             /\ Goto(IF Sn.message THEN "snip_msg" ELSE "snip_nl1")
             /\ UNCHANGED <<ci, si, hp, scan>>
        ELSE Reject
    /\ UNCHANGED <<diagnostic, first>>

\* lines 99-101: write!(f, " {}:", msg)
SnipMsg ==
    /\ pc = "snip_msg" /\ result = "none"
    /\ \E ok \in BOOLEAN :
        IF ok
        THEN /\ Accept(<<Tok("msg", 3, si, 1, <<>>)>>)
             /\ Goto("snip_nl1")
             /\ UNCHANGED <<ci, si, hp, scan>>
        ELSE Reject
    /\ UNCHANGED <<diagnostic, first>>

\* line 102: writeln!(f)
SnipNl1 ==
    /\ pc = "snip_nl1" /\ result = "none"
    /\ \E ok \in BOOLEAN :
        IF ok
        THEN /\ Accept(<<NL(3)>>)
             /\ Goto("snip_nl2")
             /\ UNCHANGED <<ci, si, hp, scan>>
        ELSE Reject
    /\ UNCHANGED <<diagnostic, first>>

\* line 103: writeln!(f)
SnipNl2 ==
    /\ pc = "snip_nl2" /\ result = "none"
    /\ \E ok \in BOOLEAN :
        IF ok
        THEN /\ Accept(<<NL(3)>>)
             /\ Goto("snip_read")
             /\ UNCHANGED <<ci, si, hp, scan>>
        ELSE Reject
    /\ UNCHANGED <<diagnostic, first>>

\* The read's result unwrapped instead of mapped to fmt::Error.
ReadOutcomeUnwrap(sn) ==
    IF sn.read = "err" \/ ~sn.utf8 THEN "panic" ELSE "ok"

\* lines 104-108: read_span(..).map_err(|_| fmt::Error)? turns a failed read
\* into fmt::Error; from_utf8(..).expect("Bad utf8 detected") panics on
\* bytes that do not decode.
ReadOutcome(sn) ==
    IF sn.read = "err" THEN "Err"
    ELSE IF ~sn.utf8 THEN "panic"
    ELSE "ok"

\* A line counter that lives in the reporter and is set on first use only.
InitialLineOnce(sn, stale) == IF stale = 0 THEN sn.cline ELSE stale

\* line 109: `let mut line = contents.line();` is a new local of this call:
\* it takes the reader's line, whatever the slot held before (stale).
InitialLine(sn, stale) == sn.cline

\* lines 104-116: the read, the decoding, the counters' initial values, and
\* the first test of the while loop (an empty text ends the snippet at once).
SnipRead ==
    /\ pc = "snip_read" /\ result = "none"
    /\ IF ReadOutcome(Sn) = "Err" THEN Abort("read")
       ELSE IF ReadOutcome(Sn) = "panic" THEN Panic("utf8")
       ELSE /\ line' = InitialLine(Sn, line)
            /\ column' = Sn.ccolumn
            /\ offset' = Sn.start
            /\ line_offset' = Sn.start
            /\ pos' = 0
            /\ line_str' = <<>>
            /\ hi' = 0
            /\ IF Sn.data = <<>>
               THEN Goto(NextSnippetPc(si)) /\ si' = si + 1
               ELSE Goto("scan") /\ si' = si
            /\ UNCHANGED <<ci, hp>>
    /\ UNCHANGED <<diagnostic, first, out, attempts>>

\* line 120: iter.next_if_eq(&'\n') after a '\r' at character p + 1.
IsCrLf(data, p) ==
    /\ data[p + 1] = "CR"
    /\ p + 2 <= Len(data)
    /\ data[p + 2] = "LF"

\* lines 118-137: the arms that end a line ('\n', and '\r' followed by '\n').
IsLineBreak(data, p) == data[p + 1] = "LF" \/ IsCrLf(data, p)

\* A flush at line breaks only: the unterminated last line is never written.
FlushOnBreakOnly(col, atEnd) == col = 0

\* line 142: the flush condition; atEnd is iter.peek().is_none().
FlushCondition(col, atEnd) == col = 0 \/ atEnd

\* lines 116-142: one turn of the while loop up to the flush test; without
\* a flush the loop tests iter.next() again, and ends the snippet when the
\* text is used up.
Scan ==
    /\ pc = "scan" /\ result = "none"
    /\ LET data == Sn.data
           brk == IsLineBreak(data, pos)
           pos2 == IF IsCrLf(data, pos) THEN pos + 2 ELSE pos + 1
           off1 == offset + len_utf8(data[pos + 1])
           col2 == IF brk THEN 0 ELSE column + 1
           atEnd == pos2 = Len(data)
       IN  /\ pos' = pos2
           /\ offset' = IF IsCrLf(data, pos) THEN off1 + 1 ELSE off1
           /\ line' = (IF brk THEN line + 1 ELSE line) + (IF atEnd THEN 1 ELSE 0)
           /\ column' = col2
           /\ line_str' = IF brk THEN line_str ELSE Append(line_str, data[pos + 1])
           /\ IF FlushCondition(col2, atEnd)
              THEN Goto("flush") /\ si' = si
              ELSE IF atEnd
              THEN Goto(NextSnippetPc(si)) /\ si' = si + 1
              ELSE Goto("scan") /\ si' = si
    /\ UNCHANGED <<diagnostic, first, out, attempts, ci, hp, line_offset, hi>>

\* Number of decimal digits of n (the Display of a usize).
RECURSIVE Digits(_)
Digits(n) == IF n < 10 THEN 1 ELSE 1 + Digits(n \div 10)

\* "{: <2}": a text of len characters padded on the right to two at least.
PadTo2(len) == IF len < 2 THEN 2 ELSE len

\* line 143: the width of "{: <2} | " for the number line.
SrcPrefixWidth(n) == PadTo2(Digits(n)) + 3

\* line 149: the width of "{: <2} | " for the one-character glyph.
AnnPrefixWidth == PadTo2(1) + 3

\* lines 143-146: writeln!(indented(f), "{: <2} | {}", line, line_str),
\* line_str.clear(), and the start of the loop over the highlights.
Flush ==
    /\ pc = "flush" /\ result = "none"
    /\ \E ok \in BOOLEAN :
        IF ok
        THEN /\ Accept(<<Tok("src", 3, line, SrcPrefixWidth(line), line_str), NL(3)>>)
             /\ line_str' = <<>>
             /\ hi' = 1
             /\ Goto("hl")
             /\ UNCHANGED <<ci, si, hp, pos, line, column, offset, line_offset>>
        ELSE Reject
    /\ UNCHANGED <<diagnostic, first>>

\* The single-line arm without the test of the span's start.
HighlightCaseNoStart(sp, lo, off) ==
    IF sp.end < off THEN "single"
    ELSE IF sp.start < off /\ sp.start >= lo /\ sp.end >= off THEN "multi"
    ELSE "skip"

\* lines 147 and 157-159: which arm a highlight takes at the flush of the
\* line [lo, off).
HighlightCase(sp, lo, off) ==
    IF sp.start >= lo /\ sp.end < off THEN "single"
    ELSE IF sp.start < off /\ sp.start >= lo /\ sp.end >= off THEN "multi"
    ELSE "skip"

\* lines 145-147, 157-167: the next highlight is examined; after the last
\* one line_offset = offset and the while loop tests iter.next() again.
Highlight ==
    /\ pc = "hl" /\ result = "none"
    /\ IF ~Sn.hlSome \/ hi > Len(Sn.highlights)
       THEN /\ line_offset' = offset
            /\ IF pos = Len(Sn.data)
               THEN Goto(NextSnippetPc(si)) /\ si' = si + 1
               ELSE Goto("scan") /\ si' = si
            /\ UNCHANGED <<ci, hp, pos, line, column, offset, line_str, hi>>
       ELSE LET arm == HighlightCase(Sn.highlights[hi], line_offset, offset)
            IN  IF arm = "single"
                THEN Goto("ann_pre") /\ UNCHANGED <<ci, si, hp, scan>>
                ELSE IF arm = "multi"
                THEN Panic("todo")
                ELSE /\ hi' = hi + 1
                     /\ Goto("hl")
                     /\ UNCHANGED <<ci, si, hp, pos, line, column, offset,
                                    line_offset, line_str>>
    /\ UNCHANGED <<diagnostic, first, out, attempts>>

\* line 149: write!(indented(f), "{: <2} | ", "⫶")
AnnPrefix ==
    /\ pc = "ann_pre" /\ result = "none"
    /\ \E ok \in BOOLEAN :
        IF ok
        THEN /\ Accept(<<Tok("annpre", 3, 0, AnnPrefixWidth, <<>>)>>)
             /\ Goto("ann_carets")
             /\ UNCHANGED <<ci, si, hp, scan>>
        ELSE Reject
    /\ UNCHANGED <<diagnostic, first>>

\* lines 153-154: the padding and the number of carets.
CaretPad(sp, lo) == sp.start - lo
CaretCount(sp) == SpanLen(sp)

\* lines 150-155: write!(f, "{}{} ", " ".repeat(..), "^".repeat(..))
AnnCarets ==
    /\ pc = "ann_carets" /\ result = "none"
    /\ \E ok \in BOOLEAN :
        IF ok
        THEN /\ Accept(<<Tok("carets", 3, CaretPad(Sn.highlights[hi], line_offset),
                             CaretCount(Sn.highlights[hi]), <<>>)>>)
             /\ Goto("ann_label")
             /\ UNCHANGED <<ci, si, hp, scan>>
        ELSE Reject
    /\ UNCHANGED <<diagnostic, first>>

\* line 156: writeln!(f, "{}", label); the label is the highlight's index.
AnnLabel ==
    /\ pc = "ann_label" /\ result = "none"
    /\ \E ok \in BOOLEAN :
        IF ok
        THEN /\ Accept(<<Tok("label", 3, hi, 0, <<>>), NL(3)>>)
             /\ hi' = hi + 1
             /\ Goto("hl")
             /\ UNCHANGED <<ci, si, hp, pos, line, column, offset, line_offset, line_str>>
        ELSE Reject
    /\ UNCHANGED <<diagnostic, first>>

RenderSnippet ==
    \/ SnipName \/ SnipMsg \/ SnipNl1 \/ SnipNl2 \/ SnipRead
    \/ Scan \/ Flush \/ Highlight \/ AnnPrefix \/ AnnCarets \/ AnnLabel

\* ------------------------------------------------- the snippet specification
\* No earlier render: MietteReporter is a unit struct (line 19), there is
\* nothing in it that a render could have left behind.
NoRender ==
    [done |-> FALSE, out |-> <<>>, result |-> "none", errKind |-> "none",
     counters |-> <<0, 0, 0, 0>>]

\* render_snippet on one snippet: render_diagnostic's loop over a single
\* snippet of a diagnostic without help, entered at the call of line 41.
InitSnippet ==
    /\ diagnostic \in {Diagnostic("Error", 0, TRUE, <<sn>>, FALSE, 0) : sn \in SnippetInputs}
    /\ out = <<>>
    /\ attempts = 0
    /\ result = "none"
    /\ errKind = "none"
    /\ pc = "snip_name"
    /\ ci = 0 /\ si = 1 /\ hp = 0
    /\ pos = 0 /\ line = 0 /\ column = 0 /\ offset = 0 /\ line_offset = 0
    /\ line_str = <<>> /\ hi = 0
    /\ first = NoRender

NextSnippet == RenderSnippet

SnippetSpec == InitSnippet /\ [][NextSnippet]_vars

\* ----------------------------------------------- the repeated specification
\* lines 20-26, 40-41: the same diagnostic is rendered once more, into a new
\* formatter, after a render whose writes the sink all accepted.  What that
\* render ended with is kept in `first` for comparison.  render_snippet is
\* entered again; the locals of the call that returned are gone, and the
\* slots of the new call hold whatever was there (the old values) until
\* lines 109-115 assign them.
RenderAgain ==
    /\ result # "none" /\ errKind # "sink" /\ ~first.done
    /\ first' = [done |-> TRUE, out |-> out, result |-> result, errKind |-> errKind,
                 counters |-> <<line, column, offset, line_offset>>]
    /\ out' = <<>>
    /\ attempts' = 0
    /\ result' = "none"
    /\ errKind' = "none"
    /\ pc' = "snip_name"
    /\ ci' = 0 /\ si' = 1 /\ hp' = 0
    /\ UNCHANGED <<diagnostic, scan>>

NextRepeat == RenderSnippet \/ RenderAgain

RepeatSpec == InitSnippet /\ [][NextRepeat]_vars

\* ---------------------------------------------- the diagnostic specification
\* The snippets a diagnostic of the diagnostic specification is made of: a
\* terminated line with a highlight on it and a message, an unterminated
\* line, an empty text, a failing read, and undecodable bytes.
SampleSnippets ==
    { Snippet(TRUE, "ok", TRUE, <<"a", "LF">>, 1, 1, TRUE, <<Span(0, 1)>>),
      Snippet(FALSE, "ok", TRUE, <<"a">>, 1, 1, FALSE, <<>>),
      Snippet(FALSE, "ok", TRUE, <<>>, 1, 1, FALSE, <<>>),
      Snippet(FALSE, "err", TRUE, <<>>, 1, 1, FALSE, <<>>),
      Snippet(FALSE, "ok", FALSE, <<>>, 1, 1, FALSE, <<>>) }

Severities == {"Error", "Warning", "Advice"}

Diagnostics ==
    {Diagnostic(sev, c, FALSE, <<>>, hs, h) :
        sev \in Severities, c \in 0..MaxCauses,
        hs \in BOOLEAN, h \in 0..MaxHelp} \cup
    {Diagnostic(sev, c, TRUE, sns, hs, h) :
        sev \in Severities, c \in 0..MaxCauses,
        sns \in SeqsUpTo(SampleSnippets, MaxSnippets),
        hs \in BOOLEAN, h \in 0..MaxHelp}

\* The state at the call of render_diagnostic (debug() without the
\* alternate flag, line 24).
Init ==
    /\ diagnostic \in {d \in Diagnostics : d.helpSome \/ d.help = 0}
    /\ out = <<>>
    /\ attempts = 0
    /\ result = "none"
    /\ errKind = "none"
    /\ pc = "header"
    /\ ci = 0 /\ si = 0 /\ hp = 0
    /\ pos = 0 /\ line = 0 /\ column = 0 /\ offset = 0 /\ line_offset = 0
    /\ line_str = <<>> /\ hi = 0
    /\ first = NoRender

Next ==
    \/ Header \/ CausedBy \/ CauseNl \/ CauseMsg \/ SnippetsNl
    \/ RenderSnippet
    \/ HelpNl \/ Help

Spec == Init /\ [][Next]_vars

\* ======================================================= properties
\* The physical lines of a text whose first byte is at offset base: a line
\* ends at an LF or a CR LF pair; lo is the offset of its first byte, ce the
\* offset just past its last content byte, content its characters without
\* the terminator.  Characters after the last terminator form a last line.
RECURSIVE LinesFrom(_, _, _, _, _)
LinesFrom(data, i, lo, off, content) ==
    IF i > Len(data)
    THEN IF off > lo THEN <<[lo |-> lo, ce |-> off, content |-> content]>> ELSE <<>>
    ELSE IF data[i] = "LF"
    THEN <<[lo |-> lo, ce |-> off, content |-> content]>>
         \o LinesFrom(data, i + 1, off + 1, off + 1, <<>>)
    ELSE IF data[i] = "CR" /\ i < Len(data) /\ data[i + 1] = "LF"
    THEN <<[lo |-> lo, ce |-> off, content |-> content]>>
         \o LinesFrom(data, i + 2, off + 2, off + 2, <<>>)
    ELSE LinesFrom(data, i + 1, lo, off + len_utf8(data[i]), Append(content, data[i]))

PhysLines(sn) == LinesFrom(sn.data, 1, DataStart(sn), DataStart(sn), <<>>)

\* The snippet of the snippet specification.
TheSnippet == diagnostic.snippets[1]

SrcRows(o) == SelectSeq(o, LAMBDA t : t.k = "src")

\* Positions in o of the numbered source lines, in order.
RECURSIVE SrcPositions(_, _)
SrcPositions(o, i) ==
    IF i > Len(o) THEN <<>>
    ELSE (IF o[i].k = "src" THEN <<i>> ELSE <<>>) \o SrcPositions(o, i + 1)

\* The positions of o that follow the k-th source line up to the next one.
BlockOf(o, k) ==
    LET ps == SrcPositions(o, 1)
    IN  IF k > Len(ps) THEN {}
        ELSE {i \in 1..Len(o) : i > ps[k] /\ (k = Len(ps) \/ i < ps[k + 1])}

\* Position i of o ends a well-formed annotation row for highlight h with
\* pad spaces and n carets: the row's prefix, the padding and carets, then
\* the label and the line break, right after a line break.
IsAnnRow(o, i, h, pad, n) ==
    /\ i >= 4 /\ i < Len(o)
    /\ o[i].k = "label" /\ o[i].n = h
    /\ o[i + 1].k = "nl"
    /\ o[i - 1].k = "carets" /\ o[i - 1].n = pad /\ o[i - 1].m = n
    /\ o[i - 2].k = "annpre"
    /\ o[i - 3].k = "nl"

LabelPositions(o, h) == {i \in 1..Len(o) : o[i].k = "label" /\ o[i].n = h}

\* The render ended, and neither the sink nor the reader failed.
EndedOnItsOwn == result # "none" /\ errKind \notin {"sink", "read", "utf8"}

\* The span lies in the k-th physical line and covers no line terminator.
InLine(sp, lines, k) == lines[k].lo <= sp.start /\ sp.end <= lines[k].ce

\* C1: a highlight whose span lies within one physical line of the context
\* (covering no line terminator) gets exactly one annotation row, in the
\* block of that line: start - line start spaces, end - start carets, its label.
C1_SingleLineHighlightAnnotated ==
    EndedOnItsOwn =>
        \A h \in 1..Len(TheSnippet.highlights) :
            \A k \in 1..Len(PhysLines(TheSnippet)) :
                LET sp == TheSnippet.highlights[h]
                    ln == PhysLines(TheSnippet)[k]
                IN  InLine(sp, PhysLines(TheSnippet), k) =>
                        /\ result = "Ok"
                        /\ Cardinality(LabelPositions(out, h)) = 1
                        /\ \A i \in LabelPositions(out, h) :
                              /\ i \in BlockOf(out, k)
                              /\ IsAnnRow(out, i, h, sp.start - ln.lo, SpanLen(sp))

\* C2: the number printed in front of the k-th emitted source line is the
\* line the reader reported for the context start plus the k - 1 line
\* breaks before that line.
C2_LineNumbersCountBreaks ==
    \A k \in 1..Len(SrcRows(out)) :
        SrcRows(out)[k].n = TheSnippet.cline + (k - 1)

Contents(rows) == [k \in 1..Len(rows) |-> rows[k].s]
LineContents(sn) == [k \in 1..Len(PhysLines(sn)) |-> PhysLines(sn)[k].content]

\* C3: the emitted source lines are, in order, the physical lines of the
\* context text without their terminators: at every moment a prefix of them,
\* and all of them, each once, when the snippet was rendered.
C3_EachLineOnce ==
    /\ Len(SrcRows(out)) <= Len(PhysLines(TheSnippet))
    /\ Contents(SrcRows(out)) = SubSeq(LineContents(TheSnippet), 1, Len(SrcRows(out)))
    /\ result = "Ok" => Contents(SrcRows(out)) = LineContents(TheSnippet)
    /\ \A i \in 1..Len(out) : out[i].k = "src" => (i < Len(out) /\ out[i + 1].k = "nl")

\* A rendered text of two lines or more whose last line has no line break.
C3_Witness ==
    /\ result = "Ok"
    /\ Len(PhysLines(TheSnippet)) >= 2
    /\ TheSnippet.data[Len(TheSnippet.data)] # "LF"
    /\ Len(SrcRows(out)) = Len(PhysLines(TheSnippet))

\* The span starts in the k-th physical line and covers a byte of a later one.
StartsInEndsLater(sp, lines, k) ==
    /\ k < Len(lines)
    /\ lines[k].lo <= sp.start /\ sp.start < lines[k].ce
    /\ sp.end > lines[k + 1].lo

\* C4: a highlight that starts in one physical line and ends in a later one
\* ends the render with an error result (UnsupportedHighlight), never a
\* panic, and gets no annotation row.
C4_MultilineIsRecoverable ==
    EndedOnItsOwn =>
        \A h \in 1..Len(TheSnippet.highlights) :
            \A k \in 1..Len(PhysLines(TheSnippet)) :
                StartsInEndsLater(TheSnippet.highlights[h], PhysLines(TheSnippet), k) =>
                    /\ result = "Err"
                    /\ LabelPositions(out, h) = {}

\* ---------------------------------------------------------------- C5
SecToks(o, sec) == SelectSeq(o, LAMBDA t : t.sec = sec)

\* What render_causes is to write for a chain of n links: nothing for no
\* cause; otherwise "\n\nCaused by:", then one line per link in chain order,
\* without an index for a single link and with its 0-based index otherwise.
RECURSIVE CauseLines(_, _)
CauseLines(n, k) ==
    IF k >= n THEN <<>>
    ELSE <<NL(2), Tok("cause", 2, IF n = 1 THEN NoIndex ELSE k, k + 1, <<>>)>>
         \o CauseLines(n, k + 1)

ExpectedCauseBlock(n) ==
    IF n = 0 THEN <<>>
    ELSE <<NL(2), NL(2), Tok("causedby", 2, 0, 0, <<>>)>> \o CauseLines(n, 0)

InCauses == pc \in {"header", "caused_by", "cause_nl", "cause_msg"}

\* C5: once render_causes has returned Ok, the cause block of the output is
\* "Caused by:" once and then every cause of the chain once, in order, each
\* on a line of its own, indexed exactly when the chain has two links or
\* more; nothing at all for a diagnostic without a cause.
C5_CauseBlock ==
    ~InCauses =>
        /\ SecToks(out, 2) = ExpectedCauseBlock(diagnostic.causes)
        /\ \A i \in 1..Len(out) :
              out[i].k = "cause" =>
                  /\ out[i - 1].k = "nl"
                  /\ (i = Len(out) \/ out[i + 1].k = "nl")

\* A chain of two links rendered, and the render went on to the end.
C5_Witness ==
    /\ result = "Ok"
    /\ diagnostic.causes = 2
    /\ Len(SelectSeq(out, LAMBDA t : t.k = "cause")) = 2

\* ---------------------------------------------------------------- C6
HelpPositions(o) == {i \in 1..Len(o) : o[i].k = "help"}
FirstHelp(o) == CHOOSE i \in HelpPositions(o) : \A j \in HelpPositions(o) : i <= j

\* The token at position i of o begins a line that follows exactly one
\* empty line.
AfterOneEmptyLine(o, i) ==
    /\ i >= 4
    /\ o[i - 1].k = "nl"
    /\ o[i - 2].k = "nl"
    /\ o[i - 3].k # "nl"

\* C6: whatever causes and snippets the diagnostic has, exactly one empty
\* line precedes the first help line, and every help entry is a line of its
\* own that begins with the marker.
C6_OneEmptyLineBeforeHelp ==
    HelpPositions(out) # {} =>
        /\ AfterOneEmptyLine(out, FirstHelp(out))
        /\ \A i \in HelpPositions(out) :
              out[i - 1].k = "nl" /\ i < Len(out) /\ out[i + 1].k = "nl"

\* ---------------------------------------------------------------- C7
NamePositions(o) == {i \in 1..Len(o) : o[i].k = "name"}
FirstName(o) == CHOOSE i \in NamePositions(o) : \A j \in NamePositions(o) : i <= j
NameToks(o) == SelectSeq(o, LAMBDA t : t.k = "name")

\* C7: the sections are written in the order header, causes, snippets,
\* help, nothing of an earlier section after a later one; a successful
\* render starts with the header, renders each snippet once in the given
\* order, and leaves exactly one empty line between the header or the last
\* cause line and the first snippet's "[source_name]" line.
C7_SectionOrder ==
    /\ \A i \in 1..Len(out) : \A j \in 1..Len(out) :
          i < j => out[i].sec <= out[j].sec
    /\ result = "Ok" =>
          /\ out[1].k = "header"
          /\ Len(SelectSeq(out, LAMBDA t : t.k = "header")) = 1
          /\ Len(NameToks(out)) = Len(diagnostic.snippets)
          /\ \A k \in 1..Len(NameToks(out)) : NameToks(out)[k].n = k
          /\ Len(diagnostic.snippets) > 0 =>
                /\ AfterOneEmptyLine(out, FirstName(out))
                /\ out[FirstName(out) - 3].k =
                      (IF diagnostic.causes > 0 THEN "cause" ELSE "header")

\* A successful render with causes, two snippets or more, and help.
C7_Witness ==
    /\ result = "Ok"
    /\ diagnostic.causes > 0
    /\ Len(diagnostic.snippets) >= 2
    /\ diagnostic.helpSome /\ diagnostic.help > 0
    /\ HelpPositions(out) # {}

\* ---------------------------------------------------------------- C8
\* The render ended at the read of the current snippet's context.
EndedAtRead == result # "none" /\ pc = "snip_read" /\ errKind # "sink"

\* C8: a failing read_span ends the render with a failure result, whichever
\* snippet it is; never with a panic.
C8_ReadFailureIsErr ==
    \A k \in 1..Len(diagnostic.snippets) :
        (EndedAtRead /\ si = k /\ diagnostic.snippets[k].read = "err") =>
            result = "Err" /\ errKind = "read"

\* The read of a middle snippet failed.
C8_Witness ==
    /\ EndedAtRead /\ result = "Err" /\ errKind = "read"
    /\ si = 2 /\ Len(diagnostic.snippets) = 3

\* ---------------------------------------------------------------- C9
\* A step taken after a failure leaves the sink and the result alone.
NothingAfterFailure ==
    errKind \in {"sink", "read"} =>
        (out' = out /\ attempts' = attempts /\ result' = result)

\* C9: a rejected write or a failed read ends the render with a failure
\* result, and from then on nothing is handed to the sink: the output and
\* the number of writes stay as they are, and the result stays.
C9_NothingAfterFailure ==
    /\ [](errKind \in {"sink", "read"} => result = "Err")
    /\ [][NothingAfterFailure]_vars

\* The sink rejected a source line while a later snippet and the help were
\* still to be written.
C9_Witness ==
    /\ result = "Err" /\ errKind = "sink" /\ pc = "flush"
    /\ si < Len(diagnostic.snippets)
    /\ diagnostic.helpSome /\ diagnostic.help > 0

\* ---------------------------------------------------------------- C10
\* C10: bytes that are not UTF-8 end render_snippet with a failure result
\* (MalformedSource) before the scan: no source line and no annotation row
\* of that snippet is written.
C10_MalformedSourceIsErr ==
    \A k \in 1..Len(diagnostic.snippets) :
        (EndedAtRead /\ si = k /\ diagnostic.snippets[k].read = "ok"
            /\ ~diagnostic.snippets[k].utf8) =>
            /\ result = "Err"
            /\ \A i \in 1..Len(out) :
                  (\A j \in NamePositions(out) : j <= i) =>
                      out[i].k \notin {"src", "annpre", "carets", "label"}

\* ---------------------------------------------------------------- C11
\* o is the beginning of p.
IsPrefix(o, p) == Len(o) <= Len(p) /\ SubSeq(p, 1, Len(o)) = o

\* C11: a second render of the same diagnostic writes what the first one
\* wrote: while it runs its output is a beginning of the first render's
\* output, and when it ends without a sink failure its output, its result
\* and its counters line, column, offset and line_offset are those the first
\* render ended with.
C11_SecondRenderSame ==
    first.done =>
        /\ IsPrefix(out, first.out)
        /\ (result # "none" /\ errKind # "sink") =>
              /\ out = first.out
              /\ result = first.result
              /\ errKind = first.errKind
              /\ <<line, column, offset, line_offset>> = first.counters

\* A second render that returned Ok after two source lines and an
\* annotation row.
C11_Witness ==
    /\ first.done /\ result = "Ok"
    /\ Len(SrcRows(out)) >= 2
    /\ \E i \in 1..Len(out) : out[i].k = "label"

\* ---------------------------------------------------------------- C12
\* C12: the first line of a snippet is "[source_name] message:" with a
\* message and "[source_name]:" without one (it ends with a colon either
\* way), it starts a line, and one empty line follows it before the first
\* numbered source line.
C12_SnippetHeaderLine ==
    \A i \in NamePositions(out) :
        LET msg == diagnostic.snippets[out[i].n].message
            e == IF msg THEN i + 1 ELSE i
        IN  Len(out) > e =>
                /\ out[i - 1].k = "nl"
                /\ out[e].k = (IF msg THEN "msg" ELSE "name")
                /\ out[e].m = 1
                /\ out[e + 1].k = "nl"
                /\ Len(out) >= e + 2 => out[e + 2].k = "nl"
                /\ Len(out) >= e + 3 => out[e + 3].k = "src"

\* ---------------------------------------------------------------- C13
\* The offset of the first byte after the k-th physical line and its
\* terminator.
NextStart(sn, k) ==
    IF k < Len(PhysLines(sn)) THEN PhysLines(sn)[k + 1].lo
    ELSE DataStart(sn) + ByteLen(sn.data)

\* C13: at every flush line_offset is the absolute offset of the first byte
\* of the line being flushed and offset that of the first byte after its
\* terminator, also for a context that starts in mid-line; line_offset <=
\* offset always, and the final offset is the offset just past the text.
C13_OffsetsAreAbsolute ==
    /\ line_offset <= offset
    /\ pc = "flush" =>
          LET k == Len(SrcRows(out)) + 1
          IN  /\ k <= Len(PhysLines(TheSnippet))
              /\ line_offset = PhysLines(TheSnippet)[k].lo
              /\ offset = NextStart(TheSnippet, k)
    /\ (result = "Ok" /\ TheSnippet.data # <<>>) =>
          offset = DataStart(TheSnippet) + ByteLen(TheSnippet.data)

\* ---------------------------------------------------------------- C14
RowKinds == {"annpre", "carets", "label"}

\* The span lies in the k-th physical line of sn, terminator included.
BelongsTo(sp, sn, k) ==
    /\ PhysLines(sn)[k].lo <= sp.start
    /\ sp.end < NextStart(sn, k)

C15_ConsecutiveNumbers ==
    \A k \in 2..Len(SrcRows(out)) :
        SrcRows(out)[k].n = SrcRows(out)[k - 1].n + 1

\* ---------------------------------------------------------------- C16
\* C16: when the scan is over, every highlight (each a subrange of the
\* context) has exactly one annotation row, or is the one that ended the
\* render as a multiline highlight; none was skipped on every line.
C16_EveryHighlightHandled ==
    EndedOnItsOwn =>
        \A h \in 1..Len(TheSnippet.highlights) :
            \/ Cardinality(LabelPositions(out, h)) = 1
            \/ /\ errKind = "todo" /\ hi = h
               /\ LabelPositions(out, h) = {}

\* ---------------------------------------------------------------- C17
\* C17: the text before the content of a numbered source line is as wide as
\* the text before the caret padding of its annotation rows, whatever the
\* number of digits of the line number.
C17_PrefixWidthsAgree ==
    \A k \in 1..Len(SrcRows(out)) :
        \A i \in BlockOf(out, k) :
            out[i].k = "annpre" => out[i].m = SrcRows(out)[k].m

====
